---- MODULE Spec2Model ----
(***************************************************************************)
(* The profile page of src/components/profile/main-section.tsx.  The file  *)
(* holds two successive versions of the same component: the first one      *)
(* (lines 1-349) and the second one (lines 352-786).  `version' says which *)
(* of the two is mounted.                                                  *)
(*                                                                         *)
(* A card is a JavaScript object: a function from the names of the fields  *)
(* it has to their values.  An optional field that was never set is not in *)
(* the card's DOMAIN.  Pixel sizes are integers: offsetWidth, offsetHeight,*)
(* clientX, clientY and innerWidth are integers in the DOM.                *)
(***************************************************************************)
EXTENDS Integers, Sequences, FiniteSets, TLC

VARIABLES
    version,      \* 1: the component of lines 1-349, 2: that of lines 352-786
    cards,        \* useState<CardData[]>: the card store, in display order
    gridSize,     \* useState({columns, gap}) of the second version
    viewport,     \* the browser window: innerWidth and the grid container's width
    isResizing,   \* the ids of the mounted cards whose isResizing state is true
    refs,         \* per card: initialPos and initialSize (useRef)
    domStyle,     \* per card: style.width / style.height of its element (0: "100%" / "auto")
    listeners,    \* the resize listeners attached to document, in attach order
    activeId,     \* the card a drag in progress started on (DndContext), or Null
    thrown,       \* TRUE once a handler has thrown
    lastOp,       \* history: the last handler that ran, its arguments, the store before
    steps,        \* history: the number of events handled so far
    spanIn,       \* the calculator's arguments (specification SpanSpec)
    spanOut,      \* <<the calculator's result>>, <<>> before it ran (SpanSpec)
    twin          \* the first version's store run beside the second's (PairSpec)

vars == <<version, cards, gridSize, viewport, isResizing, refs, domStyle,
          listeners, activeId, thrown, lastOp, steps, spanIn, spanOut, twin>>

-----------------------------------------------------------------------------
(* Bounds of the model *)

\* the number of events (gestures, viewport changes) of one run
MaxSteps == 3
\* the measured widths the calculator is tried on are 0..MaxWidth
MaxWidth == 920

\* the number of store operations of one run of specification StoreSpec
MaxStoreSteps == 2

\* the number of store operations of one run of specification PairSpec
MaxPairSteps == 3

\* what generateId may return: Math.random().toString(36).substring(2, 9)
\* is any string of at most seven base-36 digits, and nothing keeps two
\* calls from returning the same one
GenIds == {"k3x9a2f", "0q7zt1m"}

\* the places the pointer is pressed at and moved to
DownPositions == {[x |-> 400, y |-> 300]}
MovePositions == {[x |-> 1000, y |-> 350], [x |-> 100, y |-> 100]}

\* the browser windows tried: innerWidth, and the width the grid's container
\* (the parent element of the cards) is laid out at for it
Viewports ==
    { [innerWidth |-> 1200, container |-> 736],
      [innerWidth |-> 800,  container |-> 448],
      [innerWidth |-> 500,  container |-> 468] }

\* the windows at the breakpoints of updateGridSize, with the same layout
\* rule (max-w-6xl, p-4 md:p-8, md:w-2/3 beside a profile column of 256px)
BreakpointViewports ==
    { [innerWidth |-> 1024, container |-> 619],
      [innerWidth |-> 1023, container |-> 618],
      [innerWidth |-> 640,  container |-> 608],
      [innerWidth |-> 639,  container |-> 607] }

\* the cards the gestures of specification GridSpec are made on
GridIds == {"1", "2"}

\* the seed cards a store of specification StoreSpec may still hold at its
\* start (the others were deleted), and the ids its operations are given:
\* no card ever has id "7"
StoreSeedIds == {"1", "2", "3"}
StoreOpIds == {"1", "2", "3", "7"}

\* the measured sizes the resizes of specification PairSpec commit
PairSizes == {[w |-> 150, h |-> 150], [w |-> 835, h |-> 170]}

\* the container widths the calculator is tried on
ContainerWidths == {0, 1, 10, 31, 32, 33, 150, 448, 468, 736, 884, 900, 901}

\* height: "auto" of a card that was never resized
AutoHeight == 120

Null == "<null>"

-----------------------------------------------------------------------------
(* JavaScript helpers *)

\* { ...card, f1: v1, ... }: the fields of upd replace or extend those of card
Spread(card, upd) == upd @@ card

\* card.f for a numeric optional field used as a condition: undefined and 0
\* are both falsy
Truthy(card, f) == f \in DOMAIN card /\ card[f] # 0

Max(a, b) == IF a >= b THEN a ELSE b
Min(a, b) == IF a <= b THEN a ELSE b

\* Math.ceil(n / d) for d > 0
CeilDiv(n, d) == IF n % d = 0 THEN n \div d ELSE (n \div d) + 1

\* Math.round(n / d) for n >= 0, d > 0
RoundDiv(n, d) == (2 * n + d) \div (2 * d)

\* Array.prototype.findIndex, 1-based; 0 when there is none (JavaScript: -1)
FindIndex(items, id) ==
    IF \E i \in 1..Len(items) : items[i].id = id
    THEN CHOOSE i \in 1..Len(items) :
            /\ items[i].id = id
            /\ \A j \in 1..(i - 1) : items[j].id # id
    ELSE 0

\* Array.prototype.filter
RECURSIVE Filter(_, _)
Filter(items, id) ==
    IF items = <<>> THEN <<>>
    ELSE IF Head(items).id # id
         THEN <<Head(items)>> \o Filter(Tail(items), id)
         ELSE Filter(Tail(items), id)

Ids(items) == {items[i].id : i \in 1..Len(items)}


-----------------------------------------------------------------------------
(* The seed cards *)

SeedCardsV1 ==
    << [id |-> "1", type |-> "twitter", title |-> "My Tweeet's", buttonText |-> "Follow"],
       [id |-> "2", type |-> "youtube", title |-> "Some Tutorials", buttonText |-> "Subscribe"],
       [id |-> "3", type |-> "github", title |-> "Github"],
       [id |-> "4", type |-> "coffee", title |-> "Buy me a Coffee", buttonText |-> "Support"],
       [id |-> "5", type |-> "mastodon", title |-> "Ivory for Mastodon",
        subtitle |-> "by Tapbots", buttonText |-> "Get",
        imageUrl |-> "/placeholder.svg?height=80&width=150"],
       [id |-> "6", type |-> "ios", title |-> "iOS UI Kit"] >>

SeedCardsV2 ==
    [i \in 1..Len(SeedCardsV1) |-> Spread(SeedCardsV1[i], [gridColumn |-> 1])]

SeedCards(v) == IF v = 1 THEN SeedCardsV1 ELSE SeedCardsV2

-----------------------------------------------------------------------------
(* The card store's operations *)

\* a filter with the test the wrong way round: card.id === id
DeleteFromInverted(items, id) ==
    SelectSeq(items, LAMBDA card : card.id = id)

\* a delete by position: items.splice(items.findIndex(...), 1) on a copy,
\* where findIndex gives -1 for an id that is not there
DeleteFromSplice(items, id) ==
    LET i == FindIndex(items, id)
        n == Len(items)
    IN  IF n = 0 THEN items
        ELSE IF i = 0 THEN SubSeq(items, 1, n - 1)
        ELSE SubSeq(items, 1, i - 1) \o SubSeq(items, i + 1, n)

\* handleDeleteCard: cards.filter(card => card.id !== id)
DeleteFrom(items, id) == Filter(items, id)

\* handleResizeCard of the first version:
\* cards.map(card => card.id === id ? { ...card, width, height } : card)
ResizeInV1(items, id, width, height) ==
    [i \in 1..Len(items) |->
        IF items[i].id = id
        THEN Spread(items[i], [width |-> width, height |-> height])
        ELSE items[i]]

\* the second version's handleResizeCard if it left the height out
ResizeInV2NoHeight(items, id, width, height, gridColumn) ==
    [i \in 1..Len(items) |->
        IF items[i].id = id
        THEN Spread(items[i], [width |-> width, gridColumn |-> gridColumn])
        ELSE items[i]]

\* handleResizeCard of the second version:
\* cards.map(card => card.id === id ? { ...card, width, height, gridColumn } : card)
ResizeInV2(items, id, width, height, gridColumn) ==
    [i \in 1..Len(items) |->
        IF items[i].id = id
        THEN Spread(items[i], [width |-> width, height |-> height,
                               gridColumn |-> gridColumn])
        ELSE items[i]]

\* handleDuplicateCard without its test of cards.length
DuplicateInUnguarded(items, newId) ==
    IF Len(items) > 0
    THEN Append(items, Spread(items[1],
                              [id |-> newId, title |-> items[1].title \o " (Copy)"]))
    ELSE <<[id |-> newId, title |-> "undefined (Copy)"]>>

\* handleDuplicateCard, given what generateId returned
DuplicateIn(items, newId) ==
    IF Len(items) > 0
    THEN LET firstCard == items[1]
             newCard == Spread(firstCard,
                               [id |-> newId, title |-> firstCard.title \o " (Copy)"])
         IN  Append(items, newCard)
    ELSE items

\* array.splice(start, 1) on a copy: what is left
SpliceOut(array, start) ==
    LET n == Len(array)
        s == IF start < 0 THEN Max(n + start, 0) ELSE Min(start, n)
    IN  IF s < n
        THEN SubSeq(array, 1, s) \o SubSeq(array, s + 2, n)
        ELSE array

\* array.splice(start, 1)[0]: the element taken out (only used when there is one)
SplicedItem(array, start) ==
    LET n == Len(array)
        s == IF start < 0 THEN Max(n + start, 0) ELSE Min(start, n)
    IN  array[s + 1]

\* array.splice(start, 0, item)
SpliceIn(array, start, item) ==
    LET n == Len(array)
        s == IF start < 0 THEN Max(n + start, 0) ELSE Min(start, n)
    IN  SubSeq(array, 1, s) \o <<item>> \o SubSeq(array, s + 1, n)

\* arrayMove of @dnd-kit/sortable, with JavaScript's 0-based indices
\* (-1: findIndex found nothing):
\*   newArray = array.slice()
\*   newArray.splice(to < 0 ? newArray.length + to : to, 0, newArray.splice(from, 1)[0])
\* the first argument is evaluated before the inner splice shortens newArray
arrayMove(array, from, to) ==
    LET at == IF to < 0 THEN Len(array) + to ELSE to
    IN  SpliceIn(SpliceOut(array, from), at, SplicedItem(array, from))

\* the update with arrayMove's indices the wrong way round:
\* arrayMove(items, newIndex, oldIndex)
ReorderInSwappedArgs(items, activeIdArg, overIdArg) ==
    LET oldIndex == FindIndex(items, activeIdArg) - 1
        newIndex == FindIndex(items, overIdArg) - 1
    IN  arrayMove(items, newIndex, oldIndex)

\* the update that puts the dragged card at its new place and forgets to
\* take it out of the old one
ReorderInInsertOnly(items, activeIdArg, overIdArg) ==
    LET oldIndex == FindIndex(items, activeIdArg) - 1
        newIndex == FindIndex(items, overIdArg) - 1
    IN  IF oldIndex >= 0
        THEN SpliceIn(items, newIndex, items[oldIndex + 1])
        ELSE items

\* the update that counts the target's index in the array the dragged card
\* was taken out of: the card lands before the target
ReorderInBeforeTarget(items, activeIdArg, overIdArg) ==
    LET oldIndex == FindIndex(items, activeIdArg) - 1
        newIndex == FindIndex(items, overIdArg) - 1
    IN  arrayMove(items, oldIndex,
                  IF oldIndex >= 0 /\ oldIndex < newIndex THEN newIndex - 1 ELSE newIndex)

\* the state update of handleDragEnd:
\* arrayMove(items, oldIndex, newIndex) with the two findIndex results
ReorderIn(items, activeIdArg, overIdArg) ==
    LET oldIndex == FindIndex(items, activeIdArg) - 1
        newIndex == FindIndex(items, overIdArg) - 1
    IN  arrayMove(items, oldIndex, newIndex)


-----------------------------------------------------------------------------
(* The grid layout config and the resize-to-grid-span calculator *)

\* the first version keeps no grid layout config
NoGridSize == [columns |-> 0, gap |-> 0]

\* updateGridSize with > for >= at the breakpoints
updateGridSizeStrict(innerWidth) ==
    IF innerWidth > 1024 THEN [columns |-> 3, gap |-> 16]
    ELSE IF innerWidth > 640 THEN [columns |-> 2, gap |-> 16]
    ELSE [columns |-> 1, gap |-> 16]

\* updateGridSize: the config for a window width
updateGridSize(innerWidth) ==
    IF innerWidth >= 1024 THEN [columns |-> 3, gap |-> 16]
    ELSE IF innerWidth >= 640 THEN [columns |-> 2, gap |-> 16]
    ELSE [columns |-> 1, gap |-> 16]

\* the calculator without Math.min(gridSize.columns, ...)
calculateGridSpanNoMin(width, gs, containerWidth) ==
    IF gs.columns = 0 THEN 1
    ELSE IF containerWidth = 0 THEN 1
    ELSE Max(1, CeilDiv((width + gs.gap) * gs.columns, containerWidth + gs.gap))

\* the calculator with Math.floor for Math.ceil
calculateGridSpanFloor(width, gs, containerWidth) ==
    IF gs.columns = 0 THEN 1
    ELSE IF containerWidth = 0 THEN 1
    ELSE Max(1, Min(gs.columns,
                    ((width + gs.gap) * gs.columns) \div (containerWidth + gs.gap)))

\* calculateGridSpan, in exact arithmetic.  With
\*   singleColWidth = (containerWidth - gap * (columns - 1)) / columns
\* the quotient (width + gap) / (singleColWidth + gap) is num / den below.
\* For integer pixel sizes its distance to an integer it does not equal is
\* at least 1 / den, far above the rounding error of double arithmetic, and
\* where it equals an integer below columns singleColWidth is an integer or
\* a half, so Math.ceil of the double quotient, once clamped, is the clamped
\* ceiling of the exact quotient.
calculateGridSpan(width, gs, containerWidth) ==
    IF gs.columns = 0 THEN 1
    ELSE IF containerWidth = 0 THEN 1
    ELSE LET num == (width + gs.gap) * gs.columns
             den == (containerWidth - gs.gap * (gs.columns - 1)) + gs.gap * gs.columns
             ceil == IF den > 0 THEN CeilDiv(num, den)
                     ELSE IF den < 0 THEN 0 - ((num) \div (0 - den))
                     ELSE gs.columns      \* x / 0: Infinity
         IN  Max(1, Min(gs.columns, ceil))

-----------------------------------------------------------------------------
(* The page as the browser lays it out *)

\* grid-cols-1 sm:grid-cols-2 lg:grid-cols-3: the columns of the CSS grid
CssColumns(innerWidth) ==
    IF innerWidth >= 1024 THEN 3 ELSE IF innerWidth >= 640 THEN 2 ELSE 1

\* the first card of the store with this id
CardOf(items, id) == items[FindIndex(items, id)]

\* the style prop a card is rendered with: 0 stands for "100%" / "auto"
StyleProp(card) ==
    [w |-> IF Truthy(card, "width") THEN card.width ELSE 0,
     h |-> IF Truthy(card, "height") THEN card.height ELSE 0]

\* offsetWidth of a card whose style.width is "100%": the width of the
\* grid tracks it spans (gap-4 is 16px)
NaturalWidth(card, vp) ==
    LET cols == CssColumns(vp.innerWidth)
        span == IF Truthy(card, "gridColumn") THEN Min(card.gridColumn, cols) ELSE 1
    IN  RoundDiv(span * (vp.container - 16 * (cols - 1)) + (span - 1) * 16 * cols, cols)

\* offsetWidth and offsetHeight of a mounted card
OffsetSize(items, style, vp, id) ==
    [w |-> IF style[id].w # 0 THEN style[id].w ELSE NaturalWidth(CardOf(items, id), vp),
     h |-> IF style[id].h # 0 THEN style[id].h ELSE AutoHeight]

\* useRef({ x: 0, y: 0 }), useRef({ width: 0, height: 0 })
ZeroRef == [pos |-> [x |-> 0, y |-> 0], size |-> [w |-> 0, h |-> 0]]

\* a resize listener pair (handleMouseMove, handleMouseUp) on document with
\* what its closure holds: the card's id, isResizing and, through onResize,
\* the store of the render that created it; detached: its card's element
\* has left the document
Listener(id, resizing, items) ==
    [id |-> id, resizing |-> resizing, cards |-> items, detached |-> FALSE]

\* second version: the effect of lines 455-501 runs again after every render
\* (onResize is a new function each time), so what is attached is one pair
\* per mounted card that is resizing, created by the last render
V2Listeners(items, resizing) ==
    LET idx == {i \in 1..Len(items) :
                    items[i].id \in resizing /\ FindIndex(items, items[i].id) = i}
        RECURSIVE build(_, _)
        build(i, acc) ==
            IF i > Len(items) THEN acc
            ELSE build(i + 1, IF i \in idx
                              THEN Append(acc, Listener(items[i].id, TRUE, items))
                              ELSE acc)
    IN  build(1, <<>>)

\* first version: the pairs stay until their own handleMouseUp removes them
V1Listeners(ls, items) ==
    [i \in 1..Len(ls) |->
        IF ls[i].id \in Ids(items) THEN ls[i] ELSE [ls[i] EXCEPT !.detached = TRUE]]

\* React renders the store newCards: cards that left are unmounted, new
\* cards are mounted, a style property is written where its prop changed
Render(newCards, newResizing, style, ls) ==
    /\ cards' = newCards
    /\ isResizing' = newResizing \cap Ids(newCards)
    /\ refs' = [id \in Ids(newCards) |-> IF id \in DOMAIN refs THEN refs[id] ELSE ZeroRef]
    /\ domStyle' =
         [id \in Ids(newCards) |->
            LET new == StyleProp(CardOf(newCards, id))
            IN  IF id \in Ids(cards) /\ id \in DOMAIN style
                THEN LET old == StyleProp(CardOf(cards, id))
                     IN  [w |-> IF new.w = old.w THEN style[id].w ELSE new.w,
                          h |-> IF new.h = old.h THEN style[id].h ELSE new.h]
                ELSE new]
    /\ listeners' = IF version = 2
                    THEN V2Listeners(newCards, newResizing \cap Ids(newCards))
                    ELSE V1Listeners(ls, newCards)


-----------------------------------------------------------------------------
(* The page's state after it is mounted *)

NoSpanIn == [width |-> 0, columns |-> 0, gap |-> 0, container |-> 0]

Op(op, id, over, commits) ==
    [op |-> op, id |-> id, over |-> over, before |-> cards, commits |-> commits]

Init ==
    /\ version \in {1, 2}
    /\ viewport \in Viewports
    /\ cards = SeedCards(version)
    \* useState({columns: 3, gap: 16}), then the mount effect's updateGridSize()
    /\ gridSize = IF version = 2 THEN updateGridSize(viewport.innerWidth) ELSE NoGridSize
    /\ isResizing = {}
    /\ refs = [id \in Ids(SeedCards(version)) |-> ZeroRef]
    /\ domStyle = [id \in Ids(SeedCards(version)) |->
                        StyleProp(CardOf(SeedCards(version), id))]
    /\ listeners = <<>>
    /\ activeId = Null
    /\ thrown = FALSE
    /\ lastOp = [op |-> "mount", id |-> Null, over |-> Null, before |-> <<>>,
                 commits |-> <<>>]
    /\ steps = 0
    /\ spanIn = NoSpanIn
    /\ spanOut = <<>>
    /\ twin = <<>>

-----------------------------------------------------------------------------
(* The handlers.  Each action is one event: the handlers it runs and the   *)
(* render that follows.                                                    *)

\* a click on the delete button of a mounted card: handleDeleteCard
DeleteCard(id) ==
    /\ steps < MaxSteps
    /\ id \in Ids(cards)
    /\ Render(DeleteFrom(cards, id), isResizing, domStyle, listeners)
    /\ lastOp' = Op("delete", id, Null, <<>>)
    /\ steps' = steps + 1
    /\ UNCHANGED <<version, gridSize, viewport, activeId, thrown, spanIn, spanOut, twin>>

\* a click on the floating button: handleDuplicateCard
DuplicateCard(newId) ==
    /\ steps < MaxSteps
    /\ Render(DuplicateIn(cards, newId), isResizing, domStyle, listeners)
    /\ lastOp' = Op("duplicate", newId, Null, <<>>)
    /\ steps' = steps + 1
    /\ UNCHANGED <<version, gridSize, viewport, activeId, thrown, spanIn, spanOut, twin>>

\* a drag starts on a card that has its drag listeners: those are spread on
\* the card only while it is not resizing
DragStart(id) ==
    /\ steps < MaxSteps
    /\ activeId = Null
    /\ id \in Ids(cards)
    /\ id \notin isResizing
    /\ activeId' = id
    /\ lastOp' = Op("dragstart", id, Null, <<>>)
    /\ steps' = steps + 1
    /\ UNCHANGED <<version, cards, gridSize, viewport, isResizing, refs, domStyle,
                   listeners, thrown, spanIn, spanOut, twin>>

\* the drag ends over a mounted card or over nothing: handleDragEnd
HandleDragEnd(over) ==
    /\ steps < MaxSteps
    /\ activeId # Null
    /\ over \in Ids(cards) \cup {Null}
    /\ IF over = Null
       THEN \* first version: over.id of null throws; second version: `over &&'
            /\ thrown' = (thrown \/ version = 1)
            /\ UNCHANGED <<cards, isResizing, refs, domStyle, listeners>>
       ELSE /\ IF activeId # over
               THEN Render(ReorderIn(cards, activeId, over), isResizing, domStyle, listeners)
               ELSE UNCHANGED <<cards, isResizing, refs, domStyle, listeners>>
            /\ UNCHANGED thrown
    /\ activeId' = Null
    /\ lastOp' = Op("dragend", activeId, over, <<>>)
    /\ steps' = steps + 1
    /\ UNCHANGED <<version, gridSize, viewport, spanIn, spanOut, twin>>

\* a mouse button goes down on the resize handle of a mounted card:
\* handleResizeStart
ResizeStart(id, pos) ==
    /\ steps < MaxSteps
    /\ id \in Ids(cards)
    /\ isResizing' = isResizing \cup {id}
    /\ refs' = [refs EXCEPT ![id] =
                    [pos |-> pos, size |-> OffsetSize(cards, domStyle, viewport, id)]]
    /\ listeners' = IF version = 1
                    THEN \* lines 60-88: the pair closes over this render's
                         \* isResizing and onResize
                         Append(listeners, Listener(id, id \in isResizing, cards))
                    ELSE V2Listeners(cards, isResizing \cup {id})
    /\ lastOp' = Op("resizestart", id, Null, <<>>)
    /\ steps' = steps + 1
    /\ UNCHANGED <<version, cards, gridSize, viewport, domStyle, activeId, thrown,
                   spanIn, spanOut, twin>>

\* whether the handleMouseMove of listener l writes the card's style
Moves(l) == (version = 2 \/ l.resizing) /\ ~l.detached

\* the size handleMouseMove computes for card id when the pointer is at pos
LiveSize(id, pos) ==
    [w |-> Max(150, refs[id].size.w + (pos.x - refs[id].pos.x)),
     h |-> Max(150, refs[id].size.h + (pos.y - refs[id].pos.y))]

\* handleMouseMove as it would be if it committed the live size to the store
MouseMoveCommitting(pos) ==
    /\ steps < MaxSteps
    /\ listeners # <<>>
    /\ domStyle' = [id \in DOMAIN domStyle |->
                      IF \E i \in 1..Len(listeners) :
                            listeners[i].id = id /\ Moves(listeners[i])
                      THEN LiveSize(id, pos)
                      ELSE domStyle[id]]
    /\ cards' = [i \in 1..Len(cards) |->
                    IF cards[i].id \in isResizing
                    THEN Spread(cards[i], [width |-> LiveSize(cards[i].id, pos).w,
                                           height |-> LiveSize(cards[i].id, pos).h])
                    ELSE cards[i]]
    /\ lastOp' = Op("mousemove", Null, Null, <<>>)
    /\ steps' = steps + 1
    /\ UNCHANGED <<version, gridSize, viewport, isResizing, refs, listeners,
                   activeId, thrown, spanIn, spanOut, twin>>

\* the pointer moves while resize listeners are attached: every
\* handleMouseMove on document runs
MouseMove(pos) ==
    /\ steps < MaxSteps
    /\ listeners # <<>>
    /\ domStyle' = [id \in DOMAIN domStyle |->
                      IF \E i \in 1..Len(listeners) :
                            listeners[i].id = id /\ Moves(listeners[i])
                      THEN LiveSize(id, pos)
                      ELSE domStyle[id]]
    /\ lastOp' = Op("mousemove", Null, Null, <<>>)
    /\ steps' = steps + 1
    /\ UNCHANGED <<version, cards, gridSize, viewport, isResizing, refs, listeners,
                   activeId, thrown, spanIn, spanOut, twin>>

\* handleMouseUp computing the span with the config the page starts with,
\* { columns: 3, gap: 16 }, whatever the window is now
CommitWithFirstConfig(l) ==
    LET size == IF l.detached THEN [w |-> 0, h |-> 0]
                ELSE OffsetSize(cards, domStyle, viewport, l.id)
    IN  [id |-> l.id, width |-> size.w, height |-> size.h,
         gridColumn |-> IF version = 2
                        THEN calculateGridSpan(size.w, [columns |-> 3, gap |-> 16],
                                               viewport.container)
                        ELSE 0]

\* what the handleMouseUp of listener l passes to onResize
Commit(l) ==
    LET size == IF l.detached THEN [w |-> 0, h |-> 0]
                ELSE OffsetSize(cards, domStyle, viewport, l.id)
    IN  [id |-> l.id, width |-> size.w, height |-> size.h,
         gridColumn |-> IF version = 2
                        THEN calculateGridSpan(size.w, gridSize, viewport.container)
                        ELSE 0]

\* the store handleMouseUp of listener l sets: handleResizeCard on the
\* store its closure holds
Committed(l) ==
    LET c == Commit(l)
    IN  IF version = 1
        THEN ResizeInV1(l.cards, c.id, c.width, c.height)
        ELSE ResizeInV2(l.cards, c.id, c.width, c.height, c.gridColumn)

\* a mouse button goes up while resize listeners are attached: every
\* handleMouseUp on document runs; the updates are applied in one batch, so
\* the last setCards is the one that stays
MouseUp ==
    /\ steps < MaxSteps
    /\ listeners # <<>>
    /\ LET n == Len(listeners)
           done == {listeners[i].id : i \in {j \in 1..n : ~listeners[j].detached}}
       IN  /\ Render(Committed(listeners[n]), isResizing \ done, domStyle, <<>>)
           /\ lastOp' = Op("mouseup", listeners[n].id, Null,
                           [i \in 1..n |-> Commit(listeners[i])])
    /\ steps' = steps + 1
    /\ UNCHANGED <<version, gridSize, viewport, activeId, thrown, spanIn, spanOut, twin>>

\* the window is resized; the second version listens: updateGridSize
ViewportResize(vp) ==
    /\ steps < MaxSteps
    /\ vp # viewport
    /\ viewport' = vp
    /\ gridSize' = IF version = 2 THEN updateGridSize(vp.innerWidth) ELSE gridSize
    /\ lastOp' = Op("viewport", Null, Null, <<>>)
    /\ steps' = steps + 1
    /\ UNCHANGED <<version, cards, isResizing, refs, domStyle, listeners, activeId,
                   thrown, spanIn, spanOut, twin>>

Next ==
    \/ \E id \in Ids(cards) : DeleteCard(id)
    \/ \E newId \in GenIds : DuplicateCard(newId)
    \/ \E id \in Ids(cards) : DragStart(id)
    \/ \E over \in Ids(cards) \cup {Null} : HandleDragEnd(over)
    \/ \E id \in Ids(cards), pos \in DownPositions : ResizeStart(id, pos)
    \/ \E pos \in MovePositions : MouseMove(pos)
    \/ MouseUp
    \/ \E vp \in Viewports : ViewportResize(vp)

Spec == Init /\ [][Next]_vars

-----------------------------------------------------------------------------
(* The second version with its window at and around the breakpoints of     *)
(* updateGridSize, the gestures being made on the cards of GridIds         *)

GridViewports == Viewports \cup BreakpointViewports

GridInit ==
    /\ version = 2
    /\ viewport \in GridViewports
    /\ cards = SeedCards(2)
    /\ gridSize = updateGridSize(viewport.innerWidth)
    /\ isResizing = {}
    /\ refs = [id \in Ids(SeedCards(2)) |-> ZeroRef]
    /\ domStyle = [id \in Ids(SeedCards(2)) |-> StyleProp(CardOf(SeedCards(2), id))]
    /\ listeners = <<>>
    /\ activeId = Null
    /\ thrown = FALSE
    /\ lastOp = [op |-> "mount", id |-> Null, over |-> Null, before |-> <<>>,
                 commits |-> <<>>]
    /\ steps = 0
    /\ spanIn = NoSpanIn
    /\ spanOut = <<>>
    /\ twin = <<>>

GridNext ==
    \/ \E vp \in GridViewports : ViewportResize(vp)
    \/ \E id \in Ids(cards) \cap GridIds : DeleteCard(id)
    \/ \E newId \in GenIds : DuplicateCard(newId)
    \/ \E id \in Ids(cards) \cap GridIds : DragStart(id)
    \/ \E over \in (Ids(cards) \cap GridIds) \cup {Null} : HandleDragEnd(over)
    \/ \E id \in Ids(cards) \cap GridIds, pos \in DownPositions : ResizeStart(id, pos)
    \/ \E pos \in MovePositions : MouseMove(pos)
    \/ MouseUp

GridSpec == GridInit /\ [][GridNext]_vars

-----------------------------------------------------------------------------
(* The store's operations alone: delete, reorder and duplicate applied to  *)
(* the stores that deletes leave of the seed store, with any id            *)

\* items after delete(id) for every id of ids
RECURSIVE DeleteAll(_, _)
DeleteAll(items, ids) ==
    IF ids = {} THEN items
    ELSE LET id == CHOOSE x \in ids : TRUE
         IN  DeleteAll(DeleteFrom(items, id), ids \ {id})

InitStores(v) ==
    {DeleteAll(SeedCards(v), Ids(SeedCards(v)) \ keep) : keep \in SUBSET StoreSeedIds}

\* lastOp with the operation before it
StoreOp(op, id, over) ==
    Op(op, id, over, <<>>) @@
    [prev |-> [op |-> lastOp.op, id |-> lastOp.id, over |-> lastOp.over,
               before |-> lastOp.before]]

StoreInit ==
    /\ version \in {1, 2}
    /\ viewport = [innerWidth |-> 1200, container |-> 736]
    /\ cards \in InitStores(version)
    /\ gridSize = IF version = 2 THEN updateGridSize(viewport.innerWidth) ELSE NoGridSize
    /\ isResizing = {}
    /\ refs = [id \in Ids(cards) |-> ZeroRef]
    /\ domStyle = [id \in Ids(cards) |-> StyleProp(CardOf(cards, id))]
    /\ listeners = <<>>
    /\ activeId = Null
    /\ thrown = FALSE
    /\ lastOp = [op |-> "mount", id |-> Null, over |-> Null, before |-> <<>>,
                 commits |-> <<>>,
                 prev |-> [op |-> "mount", id |-> Null, over |-> Null, before |-> <<>>]]
    /\ steps = 0
    /\ spanIn = NoSpanIn
    /\ spanOut = <<>>
    /\ twin = <<>>

\* handleDeleteCard(id), whether a card has that id or not
StoreDelete(id) ==
    /\ steps < MaxStoreSteps
    /\ Render(DeleteFrom(cards, id), isResizing, domStyle, listeners)
    /\ lastOp' = StoreOp("delete", id, Null)
    /\ steps' = steps + 1
    /\ UNCHANGED <<version, gridSize, viewport, activeId, thrown, spanIn, spanOut, twin>>

\* handleDragEnd({active: {id: a}, over: {id: b}}); a drag needs a mounted
\* card, so the store is not empty
StoreReorder(a, b) ==
    /\ steps < MaxStoreSteps
    /\ cards # <<>>
    /\ Render(IF a # b THEN ReorderIn(cards, a, b) ELSE cards,
              isResizing, domStyle, listeners)
    /\ lastOp' = StoreOp("reorder", a, b)
    /\ steps' = steps + 1
    /\ UNCHANGED <<version, gridSize, viewport, activeId, thrown, spanIn, spanOut, twin>>

\* handleDuplicateCard()
StoreDuplicate(newId) ==
    /\ steps < MaxStoreSteps
    /\ Render(DuplicateIn(cards, newId), isResizing, domStyle, listeners)
    /\ lastOp' = StoreOp("duplicate", newId, Null)
    /\ steps' = steps + 1
    /\ UNCHANGED <<version, gridSize, viewport, activeId, thrown, spanIn, spanOut, twin>>

StoreNext ==
    \/ \E id \in StoreOpIds : StoreDelete(id)
    \/ \E a, b \in StoreOpIds : StoreReorder(a, b)
    \/ \E newId \in GenIds : StoreDuplicate(newId)

StoreSpec == StoreInit /\ [][StoreNext]_vars

-----------------------------------------------------------------------------
(* The two versions side by side: the same store operations are applied to *)
(* the second version's store (cards) and to the first version's (twin),   *)
(* both starting from their seed cards                                     *)

PairInit ==
    /\ version = 2
    /\ viewport = [innerWidth |-> 1200, container |-> 736]
    /\ cards = SeedCards(2)
    /\ twin = SeedCards(1)
    /\ gridSize = updateGridSize(viewport.innerWidth)
    /\ isResizing = {}
    /\ refs = [id \in Ids(SeedCards(2)) |-> ZeroRef]
    /\ domStyle = [id \in Ids(SeedCards(2)) |-> StyleProp(CardOf(SeedCards(2), id))]
    /\ listeners = <<>>
    /\ activeId = Null
    /\ thrown = FALSE
    /\ lastOp = [op |-> "mount", id |-> Null, over |-> Null, before |-> <<>>,
                 commits |-> <<>>]
    /\ steps = 0
    /\ spanIn = NoSpanIn
    /\ spanOut = <<>>

\* handleDeleteCard(id) in both versions
PairDelete(id) ==
    /\ steps < MaxPairSteps
    /\ Render(DeleteFrom(cards, id), isResizing, domStyle, listeners)
    /\ twin' = DeleteFrom(twin, id)
    /\ lastOp' = Op("delete", id, Null, <<>>)
    /\ steps' = steps + 1
    /\ UNCHANGED <<version, gridSize, viewport, activeId, thrown, spanIn, spanOut>>

\* handleResizeCard(id, width, height, gridColumn) in the second version,
\* handleResizeCard(id, width, height) in the first
PairResize(id, size) ==
    /\ steps < MaxPairSteps
    /\ Render(ResizeInV2(cards, id, size.w, size.h,
                         calculateGridSpan(size.w, gridSize, viewport.container)),
              isResizing, domStyle, listeners)
    /\ twin' = ResizeInV1(twin, id, size.w, size.h)
    /\ lastOp' = Op("resize", id, Null, <<>>)
    /\ steps' = steps + 1
    /\ UNCHANGED <<version, gridSize, viewport, activeId, thrown, spanIn, spanOut>>

\* handleDuplicateCard() in both versions, generateId returning the same id
PairDuplicate(newId) ==
    /\ steps < MaxPairSteps
    /\ Render(DuplicateIn(cards, newId), isResizing, domStyle, listeners)
    /\ twin' = DuplicateIn(twin, newId)
    /\ lastOp' = Op("duplicate", newId, Null, <<>>)
    /\ steps' = steps + 1
    /\ UNCHANGED <<version, gridSize, viewport, activeId, thrown, spanIn, spanOut>>

\* handleDragEnd({active: {id: a}, over: {id: b}}) in both versions, b being
\* the id of a card
PairReorder(a, b) ==
    /\ steps < MaxPairSteps
    /\ b \in Ids(cards)
    /\ b \in Ids(twin)
    /\ Render(IF a # b THEN ReorderIn(cards, a, b) ELSE cards,
              isResizing, domStyle, listeners)
    /\ twin' = IF a # b THEN ReorderIn(twin, a, b) ELSE twin
    /\ lastOp' = Op("reorder", a, b, <<>>)
    /\ steps' = steps + 1
    /\ UNCHANGED <<version, gridSize, viewport, activeId, thrown, spanIn, spanOut>>

PairNext ==
    \/ \E id \in StoreOpIds : PairDelete(id)
    \/ \E id \in StoreOpIds, size \in PairSizes : PairResize(id, size)
    \/ \E newId \in GenIds : PairDuplicate(newId)
    \/ \E a, b \in StoreOpIds : PairReorder(a, b)

PairSpec == PairInit /\ [][PairNext]_vars

-----------------------------------------------------------------------------
(* The calculator alone, on every argument within the bounds *)

SpanInit ==
    /\ version = 2
    /\ viewport = [innerWidth |-> 1200, container |-> 736]
    /\ cards = SeedCards(2)
    /\ gridSize = updateGridSize(1200)
    /\ isResizing = {}
    /\ refs = [id \in Ids(SeedCards(2)) |-> ZeroRef]
    /\ domStyle = [id \in Ids(SeedCards(2)) |-> StyleProp(CardOf(SeedCards(2), id))]
    /\ listeners = <<>>
    /\ activeId = Null
    /\ thrown = FALSE
    /\ lastOp = [op |-> "mount", id |-> Null, over |-> Null, before |-> <<>>,
                 commits |-> <<>>]
    /\ steps = 0
    /\ spanIn \in [width : 0..MaxWidth, columns : 0..3, gap : {16},
                   container : ContainerWidths]
    /\ spanOut = <<>>
    /\ twin = <<>>

SpanCalc ==
    /\ spanOut = <<>>
    /\ spanOut' = <<calculateGridSpan(spanIn.width,
                                      [columns |-> spanIn.columns, gap |-> spanIn.gap],
                                      spanIn.container)>>
    /\ UNCHANGED <<version, cards, gridSize, viewport, isResizing, refs, domStyle,
                   listeners, activeId, thrown, lastOp, steps, spanIn, twin>>

SpanNext == SpanCalc

SpanSpec == SpanInit /\ [][SpanNext]_vars


-----------------------------------------------------------------------------
(* Helpers of the properties *)

SeqIds(items) == [i \in 1..Len(items) |-> items[i].id]

UniqueIds(items) ==
    \A i, j \in 1..Len(items) : items[i].id = items[j].id => i = j

\* how many times card c occurs in items
Count(items, c) == Cardinality({i \in 1..Len(items) : items[i] = c})

-----------------------------------------------------------------------------
(* C1: delete(id) removes exactly the card with that id: no card of the   *)
(* resulting store has the id, every other card is still there, unchanged *)
(* and in its previous relative order; deleting "3" from the seed store   *)
(* leaves the five cards 1, 2, 4, 5, 6.                                   *)
C1_DeleteRemovesExactlyThatCard ==
    lastOp.op = "delete" =>
        LET b == lastOp.before
            id == lastOp.id
            keep == {k \in 1..Len(b) : b[k].id # id}
            nth(i) == CHOOSE k \in keep : Cardinality({m \in keep : m <= k}) = i
        IN  /\ \A i \in 1..Len(cards) : cards[i].id # id
            /\ Len(cards) = Cardinality(keep)
            /\ \A i \in 1..Len(cards) : cards[i] = b[nth(i)]
            /\ UniqueIds(b) => Len(cards) = Len(b) - 1
            /\ (b = SeedCards(version) /\ id = "3") =>
                    SeqIds(cards) = <<"1", "2", "4", "5", "6">>

C1_Witness ==
    /\ lastOp.op = "delete"
    /\ lastOp.id = "3"
    /\ lastOp.before = SeedCards(version)
    /\ Len(cards) = 5

(* C2: after resize(id, w, h, span) on a store that holds id, the matching *)
(* card has pixel width w, pixel height h and grid span span and its other *)
(* fields are unchanged, every other card is unchanged and so is the       *)
(* order; when id is not in the store the store is unchanged.  The resize  *)
(* is the one handleMouseUp commits, the store is the one it finds.        *)
C2_ResizeChangesOnlyTheSizeFields ==
    lastOp.op = "mouseup" =>
        LET b == lastOp.before
            c == lastOp.commits[Len(lastOp.commits)]
            size == IF version = 2 THEN {"width", "height", "gridColumn"}
                    ELSE {"width", "height"}
        IN  IF c.id \in Ids(b)
            THEN /\ Len(cards) = Len(b)
                 /\ \A i \in 1..Len(b) :
                      IF b[i].id = c.id
                      THEN /\ cards[i].width = c.width
                           /\ cards[i].height = c.height
                           /\ version = 2 => cards[i].gridColumn = c.gridColumn
                           /\ DOMAIN cards[i] = DOMAIN b[i] \cup size
                           /\ \A f \in DOMAIN b[i] \ size : cards[i][f] = b[i][f]
                      ELSE cards[i] = b[i]
            ELSE cards = b

(* C3: duplicate() on a non-empty store of size N gives a store of size   *)
(* N+1: the previous cards in the same order, then a copy of the previous *)
(* first card whose title is first.title + " (Copy)" and whose id is not  *)
(* the id of any card that was in the store.                              *)
C3_DuplicateAppendsACopyWithAFreshId ==
    (lastOp.op = "duplicate" /\ Len(lastOp.before) > 0) =>
        LET b == lastOp.before
            n == Len(b)
        IN  /\ Len(cards) = n + 1
            /\ SubSeq(cards, 1, n) = b
            /\ cards[n + 1].title = b[1].title \o " (Copy)"
            /\ DOMAIN cards[n + 1] = DOMAIN b[1]
            /\ \A f \in DOMAIN b[1] \ {"id", "title"} : cards[n + 1][f] = b[1][f]
            /\ cards[n + 1].id \notin Ids(b)

(* C4: in every state reachable from the six seed cards by delete, resize, *)
(* duplicate and reorder, no two cards of the store have the same id.      *)
C4_IdsAreUnique == UniqueIds(cards)

(* C5: reorder(sourceId, targetId) with both ids in the store and          *)
(* different puts the source card at the index the target card had, moves  *)
(* the cards in between by one place towards the source's old place and    *)
(* leaves every other card where it was; moving "1" to the place of "6" in *)
(* the seed store gives 2, 3, 4, 5, 6, 1.                                  *)
C5_ReorderMovesSourceToTargetIndex ==
    (/\ lastOp.op = "dragend"
     /\ lastOp.id \in Ids(lastOp.before)
     /\ lastOp.over \in Ids(lastOp.before)
     /\ lastOp.id # lastOp.over) =>
        LET b == lastOp.before
            i == FindIndex(b, lastOp.id)
            j == FindIndex(b, lastOp.over)
        IN  /\ Len(cards) = Len(b)
            /\ cards[j] = b[i]
            /\ \A k \in 1..Len(b) :
                 /\ (k < Min(i, j) \/ k > Max(i, j)) => cards[k] = b[k]
                 /\ (i < j /\ i <= k /\ k < j) => cards[k] = b[k + 1]
                 /\ (j < i /\ j < k /\ k <= i) => cards[k] = b[k - 1]
            /\ (b = SeedCards(version) /\ lastOp.id = "1" /\ lastOp.over = "6") =>
                    SeqIds(cards) = <<"2", "3", "4", "5", "6", "1">>

C5_Witness ==
    /\ lastOp.op = "dragend"
    /\ lastOp.before = SeedCards(version)
    /\ lastOp.id = "1"
    /\ lastOp.over = "6"
    /\ SeqIds(cards) = <<"2", "3", "4", "5", "6", "1">>

(* C6: reorder(sourceId, targetId) leaves the store unchanged when         *)
(* sourceId is not in the store, when targetId is not in the store, or     *)
(* when the two are equal.                                                 *)
C6_ReorderOfMissingOrEqualIdsIsNoOp ==
    (/\ lastOp.op = "dragend"
     /\ \/ lastOp.id \notin Ids(lastOp.before)
        \/ lastOp.over \notin Ids(lastOp.before)
        \/ lastOp.id = lastOp.over) =>
        cards = lastOp.before

\* after holds the cards of before, each as often as before does
IsPermutationOf(after, before) ==
    /\ Len(after) = Len(before)
    /\ \A i \in 1..Len(after) : Count(after, after[i]) = Count(before, after[i])
    /\ \A i \in 1..Len(before) : Count(after, before[i]) = Count(before, before[i])

(* C7: a reorder, whatever its source and target ids, leaves in the store  *)
(* exactly the cards that were in it, each as often as before: the new     *)
(* order is a permutation of the old one.  Checked on every drag end, and, *)
(* on every non-empty store a delete leaves, for the update of             *)
(* handleDragEnd with any two of the store's ids and the deleted one.      *)
C7_ReorderPermutes ==
    /\ lastOp.op = "dragend" => IsPermutationOf(cards, lastOp.before)
    /\ (lastOp.op = "delete" /\ Len(cards) > 0) =>
            \A a, b \in Ids(cards) \cup {lastOp.id} :
                a # b => IsPermutationOf(ReorderIn(cards, a, b), cards)

C7_Witness ==
    /\ lastOp.op = "dragend"
    /\ lastOp.id \in Ids(lastOp.before)
    /\ lastOp.over \in Ids(lastOp.before)
    /\ FindIndex(lastOp.before, lastOp.id) > FindIndex(lastOp.before, lastOp.over) + 1
    /\ cards # lastOp.before

(* C8: in every reachable state every card's gridColumn, when set, is at   *)
(* least 1 and at most the column count of the current grid layout config. *)
C8_GridColumnWithinCurrentColumns ==
    version = 2 =>
        \A i \in 1..Len(cards) :
            "gridColumn" \in DOMAIN cards[i] =>
                (1 <= cards[i].gridColumn /\ cards[i].gridColumn <= gridSize.columns)

(* C9: for every measured width >= 0, every column count in 1..3, gap 16   *)
(* and every container width >= 0 the calculator returns an integer span   *)
(* with 1 <= span <= column count.                                         *)
C9_SpanWithinColumns ==
    (spanOut # <<>> /\ spanIn.columns \in 1..3) =>
        /\ spanOut[1] \in Int
        /\ 1 <= spanOut[1]
        /\ spanOut[1] <= spanIn.columns

C9_Witness ==
    /\ spanOut # <<>>
    /\ spanIn.columns = 2
    /\ spanIn.width = 920
    /\ spanIn.container = 150
    /\ spanOut[1] = 2

(* C10: the calculator returns 1 when the column count is 0 or the         *)
(* container width is 0; otherwise, with singleColumnWidth =               *)
(* (containerWidth - gap * (columns - 1)) / columns, it returns the least  *)
(* integer k with (width + gap) <= k * (singleColumnWidth + gap), clamped  *)
(* to 1..columns (both sides are multiplied by columns below); for         *)
(* container width 900, 3 columns, gap 16 and width 900 it returns 3.      *)
C10_SpanIsClampedCeiling ==
    spanOut # <<>> =>
        LET c == spanIn.columns
            g == spanIn.gap
            singleTimesC == spanIn.container - g * (c - 1)
            unit == singleTimesC + g * c
            lhs == (spanIn.width + g) * c
            q == lhs \div unit
        IN  /\ (c = 0 \/ spanIn.container = 0) => spanOut[1] = 1
            /\ (c # 0 /\ spanIn.container # 0) =>
                  \E k \in {q, q + 1} :
                      /\ (k - 1) * unit < lhs
                      /\ lhs <= k * unit
                      /\ spanOut[1] = (IF k < 1 THEN 1 ELSE IF k > c THEN c ELSE k)
            /\ (spanIn.container = 900 /\ c = 3 /\ g = 16 /\ spanIn.width = 900) =>
                  spanOut[1] = 3

C10_Witness ==
    /\ spanIn = [width |-> 900, columns |-> 3, gap |-> 16, container |-> 900]
    /\ spanOut = <<3>>

(* C11: while a card is Resizing, between the mouse-down on its resize     *)
(* handle and the matching mouse-up, no reorder whose source is that card  *)
(* is applied to the store: a drag end that changed the order was not      *)
(* started on a card that is Resizing.                                     *)
C11_NoReorderOfAResizingCard ==
    (lastOp.op = "dragend" /\ cards # lastOp.before) =>
        lastOp.id \notin isResizing

(* C12: a mouse-up while a card is Resizing returns that card to Idle and  *)
(* commits to the store, for that card's id, the width and height its      *)
(* element measures at that moment and, in the second version, the grid    *)
(* span the calculator gives for that width; the card is committed exactly *)
(* once.                                                                   *)
C12_MouseUpCommitsEachResizingCardOnce ==
    [][(steps' # steps /\ lastOp'.op = "mouseup") =>
        \A id \in isResizing :
            LET m == OffsetSize(cards, domStyle, viewport, id)
                n == Cardinality({i \in DOMAIN lastOp'.commits :
                                        lastOp'.commits[i].id = id})
            IN  /\ id \notin isResizing'
                /\ n = 1
                /\ id \in Ids(cards')
                /\ "width" \in DOMAIN CardOf(cards', id)
                /\ CardOf(cards', id).width = m.w
                /\ "height" \in DOMAIN CardOf(cards', id)
                /\ CardOf(cards', id).height = m.h
                /\ version = 2 =>
                      /\ "gridColumn" \in DOMAIN CardOf(cards', id)
                      /\ CardOf(cards', id).gridColumn =
                            calculateGridSpan(m.w, gridSize, viewport.container)
       ]_vars

(* C13: in each version, a mouse-move delivered while a card is Resizing   *)
(* sets the card's live size to width max(150, startWidth + (x - startX))  *)
(* and height max(150, startHeight + (y - startY)), where (x, y) is the    *)
(* pointer's position and the start values are those captured at the       *)
(* mouse-down.                                                             *)
C13_MouseMoveSetsTheLiveSize ==
    [][(steps' # steps /\ lastOp'.op = "mousemove") =>
        \E pos \in MovePositions :
            \A id \in isResizing :
                LET newWidth == Max(150, refs[id].size.w + (pos.x - refs[id].pos.x))
                    newHeight == Max(150, refs[id].size.h + (pos.y - refs[id].pos.y))
                IN  domStyle'[id] = [w |-> newWidth, h |-> newHeight]
       ]_vars

(* C14: a mouse-down on a resize handle and every mouse-move during a      *)
(* resize leave the card store as it was: the same cards with the same     *)
(* fields in the same order.  The store changes only on the mouse-up       *)
(* commit, on delete, on duplicate and on a drag end.                      *)
C14_ResizeStartAndMoveKeepTheStore ==
    /\ lastOp.op \in {"resizestart", "mousemove"} => cards = lastOp.before
    /\ (lastOp.op # "mount" /\ cards # lastOp.before) =>
            lastOp.op \in {"mouseup", "delete", "duplicate", "dragend"}

C14_Witness ==
    /\ lastOp.op = "mousemove"
    /\ cards = lastOp.before
    /\ \E id \in isResizing :
          /\ refs[id].size.w > 0
          /\ domStyle[id] # StyleProp(CardOf(cards, id))

(* C15: the mouse-move and mouse-up listeners a resize attaches to the     *)
(* document are detached on every way out of the resize: in every          *)
(* reachable state a listener pair on the document belongs to a mounted    *)
(* card that is Resizing (so none is left when no card is Resizing), and   *)
(* no card has more than one pair, however many resizes were started.      *)
C15_ListenersOnlyWhileResizing ==
    /\ isResizing = {} => listeners = <<>>
    /\ \A i \in 1..Len(listeners) : listeners[i].id \in isResizing
    /\ \A i, j \in 1..Len(listeners) : listeners[i].id = listeners[j].id => i = j

(* C16: at most one card is Resizing at any time, and a mouse-down on one  *)
(* card's resize handle changes no other card's interaction state: whether *)
(* it is Resizing, and the start position and size it captured.            *)
C16_AtMostOneCardResizing ==
    [][/\ Cardinality(isResizing') <= 1
       /\ (steps' # steps /\ lastOp'.op = "resizestart") =>
            \A other \in Ids(cards) \ {lastOp'.id} :
                /\ other \in isResizing' <=> other \in isResizing
                /\ refs'[other] = refs[other]
      ]_vars

(* C17: once the page is mounted and after every resize of the window the  *)
(* grid config has gap 16 and 3 columns when the window is at least 1024   *)
(* wide, 2 columns when it is at least 640 and less than 1024 wide, and 1  *)
(* column otherwise; no other event changes the config.                    *)
C17_GridConfigFollowsTheWindow ==
    /\ [](LET w == viewport.innerWidth
          IN  /\ gridSize.gap = 16
              /\ w >= 1024 => gridSize.columns = 3
              /\ (w >= 640 /\ w < 1024) => gridSize.columns = 2
              /\ w < 640 => gridSize.columns = 1)
    /\ [][gridSize' # gridSize => lastOp'.op = "viewport"]_vars

C17_Witness ==
    /\ lastOp.op = "viewport"
    /\ viewport.innerWidth = 1024
    /\ gridSize = [columns |-> 3, gap |-> 16]
    /\ cards # SeedCards(2)

(* C18: delete is idempotent and total: delete(id) followed by delete(id)  *)
(* leaves the store a single delete(id) leaves, and delete(id) with an id  *)
(* that no card of the store has leaves the store as it was; nothing is    *)
(* thrown.                                                                 *)
C18_DeleteIsIdempotentAndTotal ==
    lastOp.op = "delete" =>
        /\ ~thrown
        /\ lastOp.id \notin Ids(lastOp.before) => cards = lastOp.before
        /\ (lastOp.prev.op = "delete" /\ lastOp.prev.id = lastOp.id) =>
                cards = lastOp.before

C18_Witness ==
    /\ lastOp.op = "delete"
    /\ lastOp.prev.op = "delete"
    /\ lastOp.prev.id = lastOp.id
    /\ Len(lastOp.prev.before) = Len(lastOp.before) + 1
    /\ Len(lastOp.before) > 0
    /\ cards = lastOp.before

(* C19: reorder(a, b) followed by reorder(b, a) gives back the original    *)
(* order whenever the first reorder moved no card other than a and b,      *)
(* which is the case when a and b are next to each other.                  *)
C19_ReorderThereAndBack ==
    (/\ lastOp.op = "reorder"
     /\ lastOp.prev.op = "reorder"
     /\ lastOp.id = lastOp.prev.over
     /\ lastOp.over = lastOp.prev.id
     /\ Len(lastOp.before) = Len(lastOp.prev.before)
     /\ \A k \in 1..Len(lastOp.before) :
            lastOp.before[k] # lastOp.prev.before[k] =>
                lastOp.prev.before[k].id \in {lastOp.prev.id, lastOp.prev.over}) =>
        cards = lastOp.prev.before

C19_Witness ==
    /\ lastOp.op = "reorder"
    /\ lastOp.prev.op = "reorder"
    /\ lastOp.id = lastOp.prev.over
    /\ lastOp.over = lastOp.prev.id
    /\ Len(lastOp.before) = 3
    /\ lastOp.before # lastOp.prev.before
    /\ FindIndex(lastOp.prev.before, lastOp.prev.id) =
            FindIndex(lastOp.prev.before, lastOp.prev.over) + 1
    /\ cards = lastOp.prev.before

(* C20: duplicate() on an empty store, which deleting every card leaves,   *)
(* leaves the store empty and throws nothing.                              *)
C20_DuplicateOnEmptyStoreDoesNothing ==
    (lastOp.op = "duplicate" /\ lastOp.before = <<>>) =>
        /\ cards = <<>>
        /\ ~thrown

C20_Witness ==
    /\ lastOp.op = "duplicate"
    /\ lastOp.before = <<>>
    /\ lastOp.prev.op = "delete"
    /\ lastOp.prev.before # <<>>
    /\ cards = <<>>

(* C21: in each version a resize commit undoes no other change of the      *)
(* store: when a delete, a duplicate or a reorder was applied between a    *)
(* card's mouse-down and its mouse-up, the store after the mouse-up still  *)
(* shows it.  The store the mouse-up finds holds every such change, so the *)
(* commit must leave that store's cards, by id, in that store's order: no  *)
(* deleted card is back, no duplicate is gone, no order is reverted.       *)
C21_CommitKeepsOtherMutations ==
    lastOp.op = "mouseup" => SeqIds(cards) = SeqIds(lastOp.before)

(* C22: in each version a drag that ends over no drop target leaves the    *)
(* store as it was, and handleDragEnd throws nothing.                      *)
C22_DropOverNothingIsHarmless ==
    (lastOp.op = "dragend" /\ lastOp.over = Null) =>
        /\ cards = lastOp.before
        /\ ~thrown

C24_SpanUsesTheCurrentConfig ==
    [][(steps' # steps /\ lastOp'.op = "mouseup") =>
        LET id == lastOp'.id
            measured == OffsetSize(cards, domStyle, viewport, id).w
        IN  /\ id \in Ids(cards')
            /\ "gridColumn" \in DOMAIN CardOf(cards', id)
            /\ CardOf(cards', id).gridColumn =
                    calculateGridSpan(measured, updateGridSize(viewport'.innerWidth),
                                      viewport'.container)
       ]_vars

C24_Witness ==
    /\ lastOp.op = "mouseup"
    /\ viewport.innerWidth = 800
    /\ refs[lastOp.id].size.w = 235
    /\ CardOf(cards, lastOp.id).width = 216
    /\ CardOf(cards, lastOp.id).gridColumn = 1
    /\ calculateGridSpan(216, [columns |-> 3, gap |-> 16], viewport.container) = 2

(* C25: a resize in which a mouse-move was delivered between the           *)
(* mouse-down and the mouse-up commits to the store a width of at least    *)
(* 150 and a height of at least 150, equal to the live size the last move  *)
(* set.  Stated for a mouse-up that directly follows a move.               *)
C25_CommitIsTheLiveSize ==
    [][(steps' # steps /\ lastOp'.op = "mouseup" /\ lastOp.op = "mousemove") =>
        \A id \in isResizing :
            /\ id \in Ids(cards')
            /\ "width" \in DOMAIN CardOf(cards', id)
            /\ "height" \in DOMAIN CardOf(cards', id)
            /\ CardOf(cards', id).width >= 150
            /\ CardOf(cards', id).height >= 150
            /\ CardOf(cards', id).width = domStyle[id].w
            /\ CardOf(cards', id).height = domStyle[id].h
       ]_vars

=============================================================================
